---- MODULE Spec2Model ----
(***************************************************************************)
(* Flex-Convolution layers (src/layers.py): FlexPooling, FlexConvolution,  *)
(* FlexConvolutionTranspose and their functional wrappers, as a state      *)
(* machine over integer-valued tensors.                                    *)
(*                                                                         *)
(* A tensor is a record [dtype, shape, val]; val maps every 0-based index  *)
(* tuple of the shape to an integer.  The numeric kernels of user_ops are  *)
(* not part of src/; they are modelled from sections 4.1-4.4, 6 and 7 of   *)
(* the specification.                                                      *)
(***************************************************************************)
EXTENDS Integers, Sequences, FiniteSets, TLC

VARIABLES features, positions, neighborhoods, layer, last

vars == <<features, positions, neighborhoods, layer, last>>

(***************************************************************************)
(* Bounds of the model.                                                    *)
(***************************************************************************)
NumB == 1      \* batch size B
NumDin == 2    \* input feature channels Din (D for pooling)
NumDp == 1     \* position dimensions Dp
NumN == 2      \* elements N
NumK == 2      \* neighbors per element K

(***************************************************************************)
(* Tensors.                                                                *)
(***************************************************************************)
Range(n) == 0..(n - 1)

Index(shape) ==
  CASE Len(shape) = 0 -> {<<>>}
    [] Len(shape) = 1 -> {<<a>> : a \in Range(shape[1])}
    [] Len(shape) = 2 -> Range(shape[1]) \X Range(shape[2])
    [] Len(shape) = 3 -> Range(shape[1]) \X Range(shape[2]) \X Range(shape[3])
    [] Len(shape) = 4 -> Range(shape[1]) \X Range(shape[2]) \X Range(shape[3])
                           \X Range(shape[4])

NoTensor == [dtype |-> "none", shape |-> <<>>, val |-> <<>>]

RemoveAt(s, i) == SubSeq(s, 1, i - 1) \o SubSeq(s, i + 1, Len(s))

InsertAt(s, i, e) == SubSeq(s, 1, i - 1) \o <<e>> \o SubSeq(s, i, Len(s))

RECURSIVE Sum(_)
Sum(s) == IF s = <<>> THEN 0 ELSE Head(s) + Sum(Tail(s))

Ok(t) == [status |-> "ok", t |-> t]

Fail(e) == [status |-> e, t |-> NoTensor]

\* tf.squeeze(x, axis): the axis must exist and have size 1.
tf_squeeze(x, axis) ==
  IF Len(x.shape) > axis /\ x.shape[axis + 1] = 1
  THEN Ok([dtype |-> x.dtype,
           shape |-> RemoveAt(x.shape, axis + 1),
           val   |-> [t \in Index(RemoveAt(x.shape, axis + 1)) |->
                        x.val[InsertAt(t, axis + 1, 0)]]])
  ELSE Fail("ValueError")

\* Mutant of _remove_dim: the axis after the singleton one is squeezed.
_remove_dim_next_axis(x, axis) == tf_squeeze(x, axis + 1)

\* def _remove_dim(x, axis=2): return tf.squeeze(x, axis=axis)
_remove_dim(x, axis) == tf_squeeze(x, axis)

\* tf.expand_dims(y, axis): a singleton axis inserted at position axis.
tf_expand_dims(y, axis) ==
  IF Len(y.shape) >= axis
  THEN Ok([dtype |-> y.dtype,
           shape |-> InsertAt(y.shape, axis + 1, 1),
           val   |-> [t \in Index(InsertAt(y.shape, axis + 1, 1)) |->
                        y.val[RemoveAt(t, axis + 1)]]])
  ELSE Fail("ValueError")

\* ops.convert_to_tensor(x, dtype): a tensor of that dtype is returned as it
\* is; a tensor of another dtype is refused (no cast).
convert_to_tensor(x, dtype) ==
  IF dtype = "None" \/ x.dtype = dtype THEN Ok(x) ELSE Fail("ValueError")

\* tf.add(y, bias) with y of shape [B, Dout, N] and bias of shape [Dout, 1]
\* (broadcast over batch and element).
tf_add(y, bias) ==
  [dtype |-> y.dtype, shape |-> y.shape,
   val |-> [t \in Index(y.shape) |-> y.val[t] + bias.val[<<t[2], 0>>]]]

(***************************************************************************)
(* The numeric kernels (user_ops), modelled from the specification.        *)
(*   section 4.1: W(p) = WeightBias + SUM_d p[d] * WeightBasis[d,:,:]      *)
(*   section 4.2: gather-sum, section 4.3: scatter, section 4.4: max       *)
(*   section 7:   malformed shapes and indices outside [0,N) are rejected  *)
(*                before any computation; K = 0 is rejected for pooling    *)
(***************************************************************************)
KernelOk(y, argmax) == [status |-> "ok", y |-> y, argmax |-> argmax]

KernelFail(e) == [status |-> e, y |-> NoTensor, argmax |-> NoTensor]

\* Neighbor Index Table: every index lies in [0, N).
IndicesInRange(nb, N) == \A t \in Index(nb.shape) : nb.val[t] >= 0 /\ nb.val[t] < N

\* Canonical 3-axis layout with agreeing batch and element counts.
PoolShapesOk(f, nb) ==
  /\ Len(f.shape) = 3 /\ Len(nb.shape) = 3
  /\ nb.shape[1] = f.shape[1] /\ nb.shape[3] = f.shape[3]

ConvShapesOk(f, p, nb, theta, bias) ==
  /\ PoolShapesOk(f, nb)
  /\ Len(p.shape) = 3 /\ p.shape[1] = f.shape[1] /\ p.shape[3] = f.shape[3]
  /\ Len(theta.shape) = 4 /\ Len(bias.shape) = 2
  /\ theta.shape[1] = 1 /\ theta.shape[2] = p.shape[2]
  /\ theta.shape[3] = f.shape[2]
  /\ bias.shape = <<f.shape[2], theta.shape[4]>>

\* Dynamic Weight Synthesizer: entry (i, o) of W(Positions[b, :, j]).
W(p, theta, bias, b, j, i, o) ==
  bias.val[<<i, o>>]
    + Sum([d \in 1..p.shape[2] |-> p.val[<<b, d - 1, j>>] * theta.val[<<0, d - 1, i, o>>]])

\* Features[b, :, j]^T . W(Positions[b, :, j]), output channel o.
Contribution(f, p, theta, bias, b, j, o) ==
  Sum([i \in 1..f.shape[2] |-> f.val[<<b, i - 1, j>>] * W(p, theta, bias, b, j, i - 1, o)])

\* out[b,:,n] = SUM_k Features[b,:,Nb[b,k,n]]^T . W(Positions[b,:,Nb[b,k,n]])
_flex_convolution(f, p, nb, theta, bias) ==
  IF ~ConvShapesOk(f, p, nb, theta, bias) THEN KernelFail("InvalidArgumentError")
  ELSE IF ~IndicesInRange(nb, f.shape[3]) THEN KernelFail("InvalidArgumentError")
  ELSE LET oshape == <<f.shape[1], theta.shape[4], f.shape[3]>>
       IN KernelOk([dtype |-> f.dtype, shape |-> oshape,
                    val |-> [t \in Index(oshape) |->
                      Sum([k \in 1..nb.shape[2] |->
                        Contribution(f, p, theta, bias, t[1],
                                     nb.val[<<t[1], k - 1, t[3]>>], t[2])])]],
                   NoTensor)

\* out[b,:,n] += Features[b,:,j]^T . W(Positions[b,:,j])
\*   for every (k, n) with Neighborhoods[b,k,n] == j
_flex_convolution_transpose(f, p, nb, theta, bias) ==
  IF ~ConvShapesOk(f, p, nb, theta, bias) THEN KernelFail("InvalidArgumentError")
  ELSE IF ~IndicesInRange(nb, f.shape[3]) THEN KernelFail("InvalidArgumentError")
  ELSE LET oshape == <<f.shape[1], theta.shape[4], f.shape[3]>>
       IN KernelOk([dtype |-> f.dtype, shape |-> oshape,
                    val |-> [t \in Index(oshape) |->
                      Sum([jj \in 1..f.shape[3] |->
                        Sum([k \in 1..nb.shape[2] |->
                          IF nb.val[<<t[1], k - 1, t[3]>>] = jj - 1
                          THEN Contribution(f, p, theta, bias, t[1], jj - 1, t[2])
                          ELSE 0])])]],
                   NoTensor)

\* Scan of the K gathered values in slot order: a later slot replaces the
\* running maximum only when strictly larger (ties keep the lowest k).
\* Returns <<max, argmax>>, argmax 0-based.
RECURSIVE MaxScan(_, _, _, _)
MaxScan(s, k, best, arg) ==
  IF k > Len(s) THEN <<best, arg>>
  ELSE IF s[k] > best THEN MaxScan(s, k + 1, s[k], k - 1)
  ELSE MaxScan(s, k + 1, best, arg)

SeqMax(s) == MaxScan(s, 2, s[1], 0)[1]

SeqArgmax(s) == MaxScan(s, 2, s[1], 0)[2]

\* out[b,c,n] = max_k Features[b,c,Nb[b,k,n]]; argmax = lowest such k.
_flex_pooling(f, nb) ==
  IF ~PoolShapesOk(f, nb) THEN KernelFail("InvalidArgumentError")
  ELSE IF nb.shape[2] = 0 THEN KernelFail("InvalidArgumentError")
  ELSE IF ~IndicesInRange(nb, f.shape[3]) THEN KernelFail("InvalidArgumentError")
  ELSE LET Gathered(t) == [k \in 1..nb.shape[2] |->
                             f.val[<<t[1], t[2], nb.val[<<t[1], k - 1, t[3]>>]>>]]
       IN KernelOk([dtype |-> f.dtype, shape |-> f.shape,
                    val |-> [t \in Index(f.shape) |-> SeqMax(Gathered(t))]],
                   [dtype |-> "int32", shape |-> f.shape,
                    val |-> [t \in Index(f.shape) |-> SeqArgmax(Gathered(t))]])

(***************************************************************************)
(* Layer objects.  One record type serves the three classes; fields a      *)
(* class does not have hold NoTensor / 0 / "unset".                        *)
(***************************************************************************)
NoLayer ==
  [kind |-> "none", features |-> NoTensor, positions |-> NoTensor,
   neighborhoods |-> NoTensor, filters |-> 0, activation |-> "unset",
   use_feature_bias |-> FALSE, data_format |-> "unset",
   kernel_initializer |-> 0, position_bias_initializer |-> 0,
   features_bias_initializer |-> 0, dtype |-> "None", built |-> FALSE,
   position_theta |-> NoTensor, position_bias |-> NoTensor,
   feature_bias |-> NoTensor]

\* activations.get(identifier): None is resolved to the linear activation.
activations_get(activation) == IF activation = "None" THEN "linear" ELSE activation

\* The activation function applied elementwise.
Activate(activation, y) ==
  [dtype |-> y.dtype, shape |-> y.shape,
   val |-> [t \in Index(y.shape) |->
              IF activation = "relu" /\ y.val[t] < 0 THEN 0 ELSE y.val[t]]]

\* Layer.add_weight(name, shape, initializer): a new variable of that shape,
\* filled by the (constant) initializer.
add_weight(shape, initializer, dtype) ==
  [dtype |-> dtype, shape |-> shape, val |-> [t \in Index(shape) |-> initializer]]

\* FlexPooling.__init__
FlexPooling_init(f, nb, data_format) ==
  [NoLayer EXCEPT !.kind = "FlexPooling", !.features = f, !.neighborhoods = nb,
                  !.data_format = data_format]

\* FlexConvolution.__init__ (inherited by FlexConvolutionTranspose); pbi, fbi
\* and ki are position_bias_initializer, features_bias_initializer and
\* kernel_initializer.
FlexConvolution_init(kind, f, p, nb, filters, activation, pbi, fbi, ki, use_feature_bias, data_format) ==
  [NoLayer EXCEPT !.kind = kind, !.features = f, !.positions = p,
                  !.neighborhoods = nb, !.filters = filters,
                  !.activation = activations_get(activation),
                  !.use_feature_bias = use_feature_bias,
                  !.data_format = data_format,
                  !.kernel_initializer = ki,
                  !.position_bias_initializer = pbi,
                  !.features_bias_initializer = fbi]

\* FlexPooling.build
FlexPooling_build(self) == [status |-> "ok", self |-> [self EXCEPT !.built = TRUE]]

\* Mutant of FlexConvolution_build: Din and Dp change places in the shape of
\* position_theta.
FlexConvolution_build_swapped(self) ==
  LET f == IF self.data_format = "expanded" THEN tf_squeeze(self.features, 2)
           ELSE Ok(self.features)
      p == IF self.data_format = "expanded" THEN tf_squeeze(self.positions, 2)
           ELSE Ok(self.positions)
  IN [status |-> "ok",
      self |-> [self EXCEPT
        !.position_theta = add_weight(<<1, f.t.shape[2], p.t.shape[2], self.filters>>,
                                      self.kernel_initializer, self.dtype),
        !.position_bias = add_weight(<<f.t.shape[2], self.filters>>,
                                     self.position_bias_initializer, self.dtype),
        !.feature_bias = IF self.use_feature_bias
                         THEN add_weight(<<self.filters, 1>>,
                                         self.features_bias_initializer, self.dtype)
                         ELSE NoTensor,
        !.built = TRUE]]

\* FlexConvolution.build (inherited by FlexConvolutionTranspose)
FlexConvolution_build(self) ==
  LET f == IF self.data_format = "expanded" THEN _remove_dim(self.features, 2)
           ELSE Ok(self.features)
      p == IF f.status # "ok" THEN f
           ELSE IF self.data_format = "expanded" THEN _remove_dim(self.positions, 2)
           ELSE Ok(self.positions)
  IN IF p.status # "ok" THEN [status |-> p.status, self |-> self]
     ELSE IF Len(f.t.shape) # 3 THEN [status |-> "ValueError", self |-> self]
     ELSE IF Len(p.t.shape) < 2 THEN [status |-> "IndexError", self |-> self]
     ELSE LET Din == f.t.shape[2]
              Dp == p.t.shape[2]
              Dout == self.filters
          IN [status |-> "ok",
              self |-> [self EXCEPT
                !.position_theta = add_weight(<<1, Dp, Din, Dout>>,
                                              self.kernel_initializer, self.dtype),
                !.position_bias = add_weight(<<Din, Dout>>,
                                             self.position_bias_initializer, self.dtype),
                !.feature_bias = IF self.use_feature_bias
                                 THEN add_weight(<<Dout, 1>>,
                                                 self.features_bias_initializer, self.dtype)
                                 ELSE NoTensor,
                !.built = TRUE]]

\* tensor_shape.TensorShape(input_shape): the dimensions of the shape.
TensorShape(input_shape) == input_shape

\* input_shape[i] = v on a TensorShape.  TensorShape defines __getitem__ but
\* no __setitem__: Python raises TypeError ('TensorShape' object does not
\* support item assignment) and the shape is left as it was.
TensorShape_setitem(shape, i, v) == [status |-> "TypeError", shape |-> shape]

\* FlexPooling.compute_output_shape
FlexPooling_compute_output_shape(self, input_shape) ==
  [status |-> "ok", shape |-> TensorShape(input_shape)]

\* FlexConvolution.compute_output_shape (inherited by FlexConvolutionTranspose)
FlexConvolution_compute_output_shape(self, input_shape) ==
  LET r == TensorShape_setitem(TensorShape(input_shape), 1, self.filters)
  IN IF r.status = "ok" THEN [status |-> "ok", shape |-> r.shape]
     ELSE [status |-> r.status, shape |-> <<>>]

(***************************************************************************)
(* call.  Each call returns [status, y, steps, kernel_in, self]: the       *)
(* outcome, the returned tensor, the steps run in order, the tensors the   *)
(* kernel was handed, and the layer object after the call.                 *)
(***************************************************************************)
CallRaise(e, steps, kernel_in, self) ==
  [status |-> e, y |-> NoTensor, steps |-> steps, kernel_in |-> kernel_in,
   self |-> self]

\* The names of the steps of a straight-line trail that ran: all of them, or
\* those up to and including the first one that raised.
StepsRun(trail) ==
  LET bad == {i \in DOMAIN trail : trail[i].status # "ok"}
  IN IF bad = {} THEN [i \in DOMAIN trail |-> trail[i].step]
     ELSE LET m == CHOOSE i \in bad : \A j \in bad : i <= j
          IN [i \in 1..m |-> trail[i].step]

TrailStatus(trail) ==
  LET bad == {i \in DOMAIN trail : trail[i].status # "ok"}
  IN IF bad = {} THEN "ok"
     ELSE trail[CHOOSE i \in bad : \A j \in bad : i <= j].status

Step(name, r) == [step |-> name, status |-> r.status]

\* Mutant of FlexPooling_pre: the neighbor indices are clamped to N - 1.
FlexPooling_pre_clamped(self, inputs) ==
  LET f1 == IF self.data_format = "expanded"
            THEN tf_squeeze(inputs.items[1], 2).t ELSE inputs.items[1]
      n1 == IF self.data_format = "expanded"
            THEN tf_squeeze(inputs.items[2], 2).t ELSE inputs.items[2]
  IN [status |-> "ok",
      steps |-> <<"convert_to_tensor", "convert_to_tensor">>
                  \o (IF self.data_format = "expanded"
                      THEN <<"squeeze", "squeeze">> ELSE <<>>),
      features |-> f1,
      neighborhoods |-> [n1 EXCEPT !.val =
                           [t \in Index(n1.shape) |->
                              IF n1.val[t] >= f1.shape[3] THEN f1.shape[3] - 1
                              ELSE n1.val[t]]]]

\* FlexPooling.call, lines 82-87: conversion and axis removal.
FlexPooling_pre(self, inputs) ==
  LET f0 == convert_to_tensor(inputs.items[1], self.dtype)
      n0 == convert_to_tensor(inputs.items[2], "int32")
      expanded == self.data_format = "expanded"
      f1 == IF expanded /\ f0.status = "ok" THEN _remove_dim(f0.t, 2) ELSE f0
      n1 == IF expanded /\ n0.status = "ok" THEN _remove_dim(n0.t, 2) ELSE n0
      trail == <<Step("convert_to_tensor", f0), Step("convert_to_tensor", n0)>>
                 \o (IF expanded THEN <<Step("squeeze", f1), Step("squeeze", n1)>>
                     ELSE <<>>)
  IN [status |-> TrailStatus(trail), steps |-> StepsRun(trail),
      features |-> f1.t, neighborhoods |-> n1.t]

\* FlexPooling.call, lines 91-94: axis re-insertion.
FlexPooling_post(self, y0) ==
  LET expanded == self.data_format = "expanded"
      y1 == IF expanded THEN tf_expand_dims(y0, 2) ELSE Ok(y0)
  IN [status |-> y1.status, y |-> y1.t,
      steps |-> IF expanded THEN <<"expand_dims">> ELSE <<>>]

\* Mutant of FlexPooling_finish: the second value of the kernel's pair is
\* kept (_, y = ...).
FlexPooling_finish_argmax(self, a, k) ==
  IF k.status # "ok"
  THEN CallRaise(k.status, a.steps \o <<"_flex_pooling">>,
                 <<a.features, a.neighborhoods>>, self)
  ELSE [status |-> FlexPooling_post(self, k.argmax).status,
        y |-> FlexPooling_post(self, k.argmax).y,
        steps |-> a.steps \o <<"_flex_pooling">>
                    \o FlexPooling_post(self, k.argmax).steps,
        kernel_in |-> <<a.features, a.neighborhoods>>, self |-> self]

\* FlexPooling.call, line 89 onwards, given the kernel's outcome k.
FlexPooling_finish(self, a, k) ==
  IF k.status # "ok"
  THEN CallRaise(k.status, a.steps \o <<"_flex_pooling">>,
                 <<a.features, a.neighborhoods>>, self)
  ELSE [status |-> FlexPooling_post(self, k.y).status,
        y |-> FlexPooling_post(self, k.y).y,
        steps |-> a.steps \o <<"_flex_pooling">> \o FlexPooling_post(self, k.y).steps,
        kernel_in |-> <<a.features, a.neighborhoods>>, self |-> self]

\* FlexPooling.call, line 89 onwards, given the converted inputs a:
\* y, _ = _flex_pooling(features, neighborhoods)
FlexPooling_kernel(self, a) ==
  IF a.status # "ok" THEN CallRaise(a.status, a.steps, <<>>, self)
  ELSE FlexPooling_finish(self, a, _flex_pooling(a.features, a.neighborhoods))

\* FlexPooling.call
FlexPooling_call(self, inputs) ==
  IF inputs.container # "list" THEN CallRaise("ValueError", <<>>, <<>>, self)
  ELSE FlexPooling_kernel(self, FlexPooling_pre(self, inputs))

\* FlexConvolution.call, lines 229-236: conversion and axis removal.
FlexConvolution_pre(self, inputs) ==
  LET f0 == convert_to_tensor(inputs.items[1], self.dtype)
      p0 == convert_to_tensor(inputs.items[2], self.dtype)
      n0 == convert_to_tensor(inputs.items[3], "int32")
      expanded == self.data_format = "expanded"
      f1 == IF expanded /\ f0.status = "ok" THEN _remove_dim(f0.t, 2) ELSE f0
      p1 == IF expanded /\ p0.status = "ok" THEN _remove_dim(p0.t, 2) ELSE p0
      n1 == IF expanded /\ n0.status = "ok" THEN _remove_dim(n0.t, 2) ELSE n0
      trail == <<Step("convert_to_tensor", f0), Step("convert_to_tensor", p0),
                 Step("convert_to_tensor", n0)>>
                 \o (IF expanded
                     THEN <<Step("squeeze", f1), Step("squeeze", p1), Step("squeeze", n1)>>
                     ELSE <<>>)
  IN [status |-> TrailStatus(trail), steps |-> StepsRun(trail),
      features |-> f1.t, positions |-> p1.t, neighborhoods |-> n1.t]

\* Mutant of FlexConvolution_post: the activation runs before the bias is
\* added.
FlexConvolution_post_activation_first(self, y0) ==
  LET expanded == self.data_format = "expanded"
      y1 == IF self.activation # "None" THEN Activate(self.activation, y0) ELSE y0
      y2 == IF self.use_feature_bias THEN tf_add(y1, self.feature_bias) ELSE y1
      y3 == IF expanded THEN tf_expand_dims(y2, 2) ELSE Ok(y2)
  IN [status |-> y3.status, y |-> y3.t,
      steps |-> (IF self.activation # "None" THEN <<"activation">> ELSE <<>>)
                \o (IF self.use_feature_bias THEN <<"add">> ELSE <<>>)
                \o (IF expanded THEN <<"expand_dims">> ELSE <<>>)]

\* FlexConvolution.call, lines 241-250: bias, activation, axis re-insertion.
FlexConvolution_post(self, y0) ==
  LET expanded == self.data_format = "expanded"
      y1 == IF self.use_feature_bias THEN tf_add(y0, self.feature_bias) ELSE y0
      y2 == IF self.activation # "None" THEN Activate(self.activation, y1) ELSE y1
      y3 == IF expanded THEN tf_expand_dims(y2, 2) ELSE Ok(y2)
  IN [status |-> y3.status, y |-> y3.t,
      steps |-> (IF self.use_feature_bias THEN <<"add">> ELSE <<>>)
                \o (IF self.activation # "None" THEN <<"activation">> ELSE <<>>)
                \o (IF expanded THEN <<"expand_dims">> ELSE <<>>)]

\* Mutant of FlexConvolution_finish: the call writes position_bias back,
\* incremented.
FlexConvolution_finish_writes(self, a, k) ==
  IF k.status # "ok"
  THEN CallRaise(k.status, a.steps \o <<"_flex_convolution">>,
                 <<a.features, a.positions, a.neighborhoods,
                   self.position_theta, self.position_bias>>, self)
  ELSE [status |-> FlexConvolution_post(self, k.y).status,
        y |-> FlexConvolution_post(self, k.y).y,
        steps |-> a.steps \o <<"_flex_convolution">>
                    \o FlexConvolution_post(self, k.y).steps,
        kernel_in |-> <<a.features, a.positions, a.neighborhoods,
                        self.position_theta, self.position_bias>>,
        self |-> [self EXCEPT !.position_bias =
                    [@ EXCEPT !.val = [t \in DOMAIN @ |-> @[t] + 1]]]]

\* FlexConvolution.call, line 238 onwards, given the kernel's outcome k.
FlexConvolution_finish(self, a, k) ==
  IF k.status # "ok"
  THEN CallRaise(k.status, a.steps \o <<"_flex_convolution">>,
                 <<a.features, a.positions, a.neighborhoods,
                   self.position_theta, self.position_bias>>, self)
  ELSE [status |-> FlexConvolution_post(self, k.y).status,
        y |-> FlexConvolution_post(self, k.y).y,
        steps |-> a.steps \o <<"_flex_convolution">>
                    \o FlexConvolution_post(self, k.y).steps,
        kernel_in |-> <<a.features, a.positions, a.neighborhoods,
                        self.position_theta, self.position_bias>>,
        self |-> self]

\* FlexConvolution.call, line 238 onwards, given the converted inputs a:
\* y = _flex_convolution(features, positions, neighborhoods,
\*                       self.position_theta, self.position_bias)
FlexConvolution_kernel(self, a) ==
  IF a.status # "ok" THEN CallRaise(a.status, a.steps, <<>>, self)
  ELSE FlexConvolution_finish(self, a,
         _flex_convolution(a.features, a.positions, a.neighborhoods,
                           self.position_theta, self.position_bias))

\* FlexConvolution.call
FlexConvolution_call(self, inputs) ==
  IF inputs.container # "list" THEN CallRaise("ValueError", <<>>, <<>>, self)
  ELSE FlexConvolution_kernel(self, FlexConvolution_pre(self, inputs))

\* FlexConvolutionTranspose.call, lines 330-337: conversion and axis removal.
FlexConvolutionTranspose_pre(self, inputs) ==
  LET f0 == convert_to_tensor(inputs.items[1], self.dtype)
      p0 == convert_to_tensor(inputs.items[2], self.dtype)
      n0 == convert_to_tensor(inputs.items[3], "int32")
      expanded == self.data_format = "expanded"
      f1 == IF expanded /\ f0.status = "ok" THEN _remove_dim(f0.t, 2) ELSE f0
      p1 == IF expanded /\ p0.status = "ok" THEN _remove_dim(p0.t, 2) ELSE p0
      n1 == IF expanded /\ n0.status = "ok" THEN _remove_dim(n0.t, 2) ELSE n0
      trail == <<Step("convert_to_tensor", f0), Step("convert_to_tensor", p0),
                 Step("convert_to_tensor", n0)>>
                 \o (IF expanded
                     THEN <<Step("squeeze", f1), Step("squeeze", p1), Step("squeeze", n1)>>
                     ELSE <<>>)
  IN [status |-> TrailStatus(trail), steps |-> StepsRun(trail),
      features |-> f1.t, positions |-> p1.t, neighborhoods |-> n1.t]

\* Mutant of FlexConvolutionTranspose_post: the feature bias is not added.
FlexConvolutionTranspose_post_no_bias(self, y0) ==
  LET expanded == self.data_format = "expanded"
      y2 == IF self.activation # "None" THEN Activate(self.activation, y0) ELSE y0
      y3 == IF expanded THEN tf_expand_dims(y2, 2) ELSE Ok(y2)
  IN [status |-> y3.status, y |-> y3.t,
      steps |-> (IF self.activation # "None" THEN <<"activation">> ELSE <<>>)
                \o (IF expanded THEN <<"expand_dims">> ELSE <<>>)]

\* FlexConvolutionTranspose.call, lines 342-351: bias, activation, axis
\* re-insertion.
FlexConvolutionTranspose_post(self, y0) ==
  LET expanded == self.data_format = "expanded"
      y1 == IF self.use_feature_bias THEN tf_add(y0, self.feature_bias) ELSE y0
      y2 == IF self.activation # "None" THEN Activate(self.activation, y1) ELSE y1
      y3 == IF expanded THEN tf_expand_dims(y2, 2) ELSE Ok(y2)
  IN [status |-> y3.status, y |-> y3.t,
      steps |-> (IF self.use_feature_bias THEN <<"add">> ELSE <<>>)
                \o (IF self.activation # "None" THEN <<"activation">> ELSE <<>>)
                \o (IF expanded THEN <<"expand_dims">> ELSE <<>>)]

\* FlexConvolutionTranspose.call, line 339 onwards, given the kernel's
\* outcome k.
FlexConvolutionTranspose_finish(self, a, k) ==
  IF k.status # "ok"
  THEN CallRaise(k.status, a.steps \o <<"_flex_convolution_transpose">>,
                 <<a.features, a.positions, a.neighborhoods,
                   self.position_theta, self.position_bias>>, self)
  ELSE [status |-> FlexConvolutionTranspose_post(self, k.y).status,
        y |-> FlexConvolutionTranspose_post(self, k.y).y,
        steps |-> a.steps \o <<"_flex_convolution_transpose">>
                    \o FlexConvolutionTranspose_post(self, k.y).steps,
        kernel_in |-> <<a.features, a.positions, a.neighborhoods,
                        self.position_theta, self.position_bias>>,
        self |-> self]

\* FlexConvolutionTranspose.call, line 339 onwards, given the converted
\* inputs a:
\* y = _flex_convolution_transpose(features, positions, neighborhoods,
\*                                 self.position_theta, self.position_bias)
FlexConvolutionTranspose_kernel(self, a) ==
  IF a.status # "ok" THEN CallRaise(a.status, a.steps, <<>>, self)
  ELSE FlexConvolutionTranspose_finish(self, a,
         _flex_convolution_transpose(a.features, a.positions, a.neighborhoods,
                                     self.position_theta, self.position_bias))

\* Mutant of FlexConvolutionTranspose_call: a tuple is accepted as well
\* (isinstance(inputs, (list, tuple))).
FlexConvolutionTranspose_call_tuple(self, inputs) ==
  IF inputs.container \notin {"list", "tuple"}
  THEN CallRaise("ValueError", <<>>, <<>>, self)
  ELSE FlexConvolutionTranspose_kernel(self, FlexConvolutionTranspose_pre(self, inputs))

\* FlexConvolutionTranspose.call
FlexConvolutionTranspose_call(self, inputs) ==
  IF inputs.container # "list" THEN CallRaise("ValueError", <<>>, <<>>, self)
  ELSE FlexConvolutionTranspose_kernel(self, FlexConvolutionTranspose_pre(self, inputs))

(***************************************************************************)
(* Layer.apply / Layer.__call__ of the Keras base class, as the wrappers   *)
(* use it: the dtype is taken from the first input, an unbuilt layer is    *)
(* built, then call runs.  Returns the layer after the operation and the   *)
(* record of what happened.                                                *)
(***************************************************************************)
NoLast ==
  [op |-> "none", container |-> "none", status |-> "ok", y |-> NoTensor,
   steps |-> <<>>, kernel_in |-> <<>>, built_before |-> FALSE, shape |-> <<>>]

Layer_build(self) ==
  IF self.kind = "FlexPooling" THEN FlexPooling_build(self)
  ELSE FlexConvolution_build(self)

Layer_call(self, inputs) ==
  CASE self.kind = "FlexPooling" -> FlexPooling_call(self, inputs)
    [] self.kind = "FlexConvolution" -> FlexConvolution_call(self, inputs)
    [] self.kind = "FlexConvolutionTranspose" ->
         FlexConvolutionTranspose_call(self, inputs)

Layer_compute_output_shape(self, input_shape) ==
  IF self.kind = "FlexPooling" THEN FlexPooling_compute_output_shape(self, input_shape)
  ELSE FlexConvolution_compute_output_shape(self, input_shape)

\* The record of a call that returned or raised r.
CallOut(inputs, built_before, r) ==
  [self |-> r.self,
   out |-> [op |-> "call", container |-> inputs.container, status |-> r.status,
            y |-> r.y, steps |-> r.steps, kernel_in |-> r.kernel_in,
            built_before |-> built_before, shape |-> <<>>]]

\* After build returned or raised b: call runs only on a built layer.
ApplyBuilt(inputs, built_before, b) ==
  IF b.status # "ok"
  THEN [self |-> b.self,
        out |-> [NoLast EXCEPT !.op = "build", !.container = inputs.container,
                               !.status = b.status, !.built_before = built_before]]
  ELSE CallOut(inputs, built_before, Layer_call(b.self, inputs))

\* With the dtype set: build on first use.
ApplyTyped(self, inputs) ==
  ApplyBuilt(inputs, self.built,
             IF self.built THEN [status |-> "ok", self |-> self] ELSE Layer_build(self))

Layer_apply(self, inputs) ==
  ApplyTyped(IF self.dtype = "None"
             THEN [self EXCEPT !.dtype = inputs.items[1].dtype] ELSE self,
             inputs)

(***************************************************************************)
(* The caller's tensors.                                                   *)
(***************************************************************************)
Layouts == {"simple", "expanded"}

\* A canonical [B, D, N] tensor in the given layout ([B, D, 1, N] when
\* expanded).
InLayout(t, layout) == IF layout = "expanded" THEN tf_expand_dims(t, 2).t ELSE t

Layout(t) == IF Len(t.shape) = 4 THEN "expanded" ELSE "simple"

\* A value v[n] per element n, scaled by the channel (c + 1) and shifted by
\* the batch b.
FeatureValues == {0, 1}

FeatureTensors(layout) ==
  { InLayout([dtype |-> "float32", shape |-> <<NumB, NumDin, NumN>>,
              val |-> [t \in Index(<<NumB, NumDin, NumN>>) |->
                         v[t[3]] * (t[2] + 1) + t[1]]],
             layout)
    : v \in [Range(NumN) -> FeatureValues] }

\* Elements on a line: coordinate n + 1, shifted by d along dimension d.
PositionTensors(layout) ==
  { InLayout([dtype |-> "float32", shape |-> <<NumB, NumDp, NumN>>,
              val |-> [t \in Index(<<NumB, NumDp, NumN>>) |-> t[3] + 1 + t[2]]],
             layout) }

\* Each neighbor slot k follows one rule: the element itself (self-loop),
\* the next element (N, one past the last valid index, at the last element),
\* or element 0.  Equal rules in two slots give repeated indices.
Rules == {"self", "next", "first"}

Neighbor(rule, n) ==
  CASE rule = "self" -> n
    [] rule = "next" -> n + 1
    [] rule = "first" -> 0

NeighborhoodTensors(layout) ==
  { InLayout([dtype |-> "int32", shape |-> <<NumB, NumK, NumN>>,
              val |-> [t \in Index(<<NumB, NumK, NumN>>) |->
                         Neighbor(r[t[2] + 1], t[3])]],
             layout)
    : r \in [1..NumK -> Rules] }

\* Arguments of the constructors.
Filters == {NumDin, NumDin + 1}

Activations == {"None", "relu"}

KernelInitializers == {1}

PositionBiasInitializers == {0}

FeaturesBiasInitializers == {-1}

Containers == {"list", "tuple", "tensor"}

ConvKinds == {"FlexConvolution", "FlexConvolutionTranspose"}

\* What the caller hands to apply: the list the wrappers build, the same
\* items as a tuple, or the features tensor alone.
Inputs(kind, container) ==
  [container |-> container,
   items |-> IF container = "tensor" THEN <<features>>
             ELSE IF kind = "FlexPooling" THEN <<features, neighborhoods>>
             ELSE <<features, positions, neighborhoods>>]

(***************************************************************************)
(* The state machine.  A behaviour follows one layer object, layer, from   *)
(* its creation (by the caller, or inside a functional wrapper); last      *)
(* records the most recent operation on it.                                *)
(***************************************************************************)
Init ==
  /\ \E layout \in Layouts :
       /\ features \in FeatureTensors(layout)
       /\ positions \in PositionTensors(layout)
       /\ neighborhoods \in NeighborhoodTensors(layout)
  /\ layer = NoLayer
  /\ last = NoLast

\* layer = FlexPooling(features, neighborhoods, data_format)
ConstructPooling ==
  /\ layer = NoLayer
  /\ layer' = FlexPooling_init(features, neighborhoods, Layout(features))
  /\ last' = [NoLast EXCEPT !.op = "init"]
  /\ UNCHANGED <<features, positions, neighborhoods>>

\* layer = FlexConvolution(...) or FlexConvolutionTranspose(...)
ConstructConvolution ==
  /\ layer = NoLayer
  /\ \E kind \in ConvKinds, filters \in Filters, activation \in Activations,
        ki \in KernelInitializers, pbi \in PositionBiasInitializers,
        fbi \in FeaturesBiasInitializers, use_feature_bias \in BOOLEAN :
       layer' = FlexConvolution_init(kind, features, positions, neighborhoods,
                                     filters, activation, pbi, fbi, ki,
                                     use_feature_bias, Layout(features))
  /\ last' = [NoLast EXCEPT !.op = "init"]
  /\ UNCHANGED <<features, positions, neighborhoods>>

\* layer.apply(inputs) / layer(inputs)
Apply ==
  /\ layer # NoLayer
  /\ \E container \in Containers :
       LET r == Layer_apply(layer, Inputs(layer.kind, container))
       IN layer' = r.self /\ last' = r.out
  /\ UNCHANGED <<features, positions, neighborhoods>>

\* layer.compute_output_shape(features.shape)
ComputeOutputShape ==
  /\ layer # NoLayer
  /\ LET r == Layer_compute_output_shape(layer, features.shape)
     IN last' = [NoLast EXCEPT !.op = "compute_output_shape",
                               !.status = r.status, !.shape = r.shape]
  /\ UNCHANGED <<features, positions, neighborhoods, layer>>

\* def flex_pooling(features, neighborhoods, data_format, name)
flex_pooling ==
  /\ layer = NoLayer
  /\ LET r == Layer_apply(FlexPooling_init(features, neighborhoods, Layout(features)),
                          Inputs("FlexPooling", "list"))
     IN layer' = r.self /\ last' = r.out
  /\ UNCHANGED <<features, positions, neighborhoods>>

\* def flex_convolution(features, positions, neighborhoods, filters, ...)
flex_convolution ==
  /\ layer = NoLayer
  /\ \E filters \in Filters, activation \in Activations,
        ki \in KernelInitializers, pbi \in PositionBiasInitializers,
        fbi \in FeaturesBiasInitializers, use_feature_bias \in BOOLEAN :
       LET r == Layer_apply(
                  FlexConvolution_init("FlexConvolution", features, positions,
                                       neighborhoods, filters, activation, pbi, fbi,
                                       ki, use_feature_bias, Layout(features)),
                  Inputs("FlexConvolution", "list"))
       IN layer' = r.self /\ last' = r.out
  /\ UNCHANGED <<features, positions, neighborhoods>>

\* def flex_convolution_transpose(features, positions, neighborhoods, filters, ...)
flex_convolution_transpose ==
  /\ layer = NoLayer
  /\ \E filters \in Filters, activation \in Activations,
        ki \in KernelInitializers, pbi \in PositionBiasInitializers,
        fbi \in FeaturesBiasInitializers, use_feature_bias \in BOOLEAN :
       LET r == Layer_apply(
                  FlexConvolution_init("FlexConvolutionTranspose", features,
                                       positions, neighborhoods, filters, activation,
                                       pbi, fbi, ki, use_feature_bias,
                                       Layout(features)),
                  Inputs("FlexConvolutionTranspose", "list"))
       IN layer' = r.self /\ last' = r.out
  /\ UNCHANGED <<features, positions, neighborhoods>>

Next ==
  \/ ConstructPooling
  \/ ConstructConvolution
  \/ Apply
  \/ ComputeOutputShape
  \/ flex_pooling
  \/ flex_convolution
  \/ flex_convolution_transpose

Spec == Init /\ [][Next]_vars

(***************************************************************************)
(* Vocabulary of the properties.  The caller's tensors are read through    *)
(* their own layout: element (b, d, n) of a 4-axis tensor sits at index    *)
(* <<b, d, 0, n>>.                                                         *)
(***************************************************************************)
CanonShape(t) == <<t.shape[1], t.shape[2], t.shape[Len(t.shape)]>>

At(t, b, d, n) ==
  IF Len(t.shape) = 4 THEN t.val[<<b, d, 0, n>>] ELSE t.val[<<b, d, n>>]

IsConv == layer.kind \in ConvKinds

IsPool == layer.kind = "FlexPooling"

\* apply was given the list of the caller's tensors
ListApplied == last.op \in {"call", "build"} /\ last.container = "list"

ListCalled == last.op = "call" /\ last.container = "list"

ListReturned == ListCalled /\ last.status = "ok"

\* The caller's tensors handed over in the list, in order.
Given == Inputs(layer.kind, "list").items

\* Some neighbor index of the caller's tensor lies outside [0, N).
OutOfRange ==
  \E t \in Index(neighborhoods.shape) :
    neighborhoods.val[t] < 0 \/ neighborhoods.val[t] >= CanonShape(features)[3]

\* C1: in each of the three call methods an inputs argument that is not a
\* list is rejected with ValueError before any tensor conversion, layout
\* change or kernel invocation, and nothing is returned.
C1_NonListRejected ==
  (last.op = "call" /\ last.container # "list") =>
    /\ last.status = "ValueError"
    /\ last.steps = <<>>
    /\ last.kernel_in = <<>>
    /\ last.y = NoTensor

C1_Witness ==
  /\ last.op = "call" /\ last.container = "tensor"
  /\ layer.kind = "FlexConvolutionTranspose"
  /\ last.status = "ValueError"

\* C2: layout round trip.  With data_format 'expanded' the kernel receives
\* every input with axis 2 removed (3 axes, the caller's values) and the
\* returned output has 4 axes with a singleton axis 2 and the caller's B and
\* N; with 'simple' the kernel receives the inputs as given and the returned
\* output has 3 axes.
C2_LayoutRoundTrip ==
  ListApplied =>
    /\ last.op = "call"
    /\ Len(last.kernel_in) >= Len(Given)
    /\ \A i \in 1..Len(Given) :
         /\ Len(last.kernel_in[i].shape) = 3
         /\ last.kernel_in[i].shape = CanonShape(Given[i])
         /\ \A t \in Index(CanonShape(Given[i])) :
              last.kernel_in[i].val[t] = At(Given[i], t[1], t[2], t[3])
         /\ layer.data_format = "expanded" => Given[i].shape[3] = 1
         /\ layer.data_format = "simple" => last.kernel_in[i] = Given[i]
    /\ last.status = "ok" =>
         /\ layer.data_format = "expanded" =>
              /\ Len(last.y.shape) = 4
              /\ last.y.shape[3] = 1
              /\ last.y.shape[1] = features.shape[1]
              /\ last.y.shape[4] = features.shape[4]
         /\ layer.data_format = "simple" => Len(last.y.shape) = 3

C2_Witness ==
  /\ ListReturned /\ IsConv
  /\ layer.data_format = "expanded"
  /\ Len(features.shape) = 4 /\ Len(last.y.shape) = 4

\* The shape the claims give the output: the caller's features shape, with
\* axis 1 replaced by filters for the convolutions.
ExpectedOutputShape ==
  IF IsPool THEN features.shape ELSE [features.shape EXCEPT ![2] = layer.filters]

\* C3: shape preservation.  The returned output has the batch and element
\* counts of the features and Dout = filters channels (D for pooling), and
\* compute_output_shape of each layer reports exactly that shape.
C3_ShapePreservation ==
  /\ ListReturned => last.y.shape = ExpectedOutputShape
  /\ last.op = "compute_output_shape" =>
       last.status = "ok" /\ last.shape = ExpectedOutputShape

RECURSIVE InnerOver(_, _, _)
InnerOver(a, b, S) ==
  IF S = {} THEN 0
  ELSE LET t == CHOOSE x \in S : TRUE
       IN a.val[t] * b.val[t] + InnerOver(a, b, S \ {t})

\* <a, b> of two tensors of one shape
Inner(a, b) == InnerOver(a, b, Index(a.shape))

\* C4: adjoint property.  With the tensors and parameters the convolution
\* kernel was handed (Din = Dout), for every G:
\*   <flex_convolution(F, ...), G> = <F, flex_convolution_transpose(G, ...)>.
C4_Adjoint ==
  (ListReturned /\ layer.kind = "FlexConvolution"
     /\ layer.filters = last.kernel_in[1].shape[2]) =>
    \A G \in FeatureTensors("simple") :
      Inner(_flex_convolution(last.kernel_in[1], last.kernel_in[2],
                              last.kernel_in[3], last.kernel_in[4],
                              last.kernel_in[5]).y, G)
        = Inner(last.kernel_in[1],
                _flex_convolution_transpose(G, last.kernel_in[2],
                                            last.kernel_in[3], last.kernel_in[4],
                                            last.kernel_in[5]).y)

\* The pair the pooling kernel returned in the last call.
Pooled == _flex_pooling(last.kernel_in[1], last.kernel_in[2])

\* The value the caller's features hold at the k-th neighbor of element n.
GatheredAt(b, c, k, n) == At(features, b, c, At(neighborhoods, b, k, n))

\* C5: pooling argmax consistency.  The kernel returns the pair (output,
\* argmax), both of the features' shape; for every (b, c, n) the output is
\* the maximum of the caller's Features[b, c, Neighborhoods[b, k, n]] over
\* k, argmax is the lowest k in 0..K-1 achieving it, and the layer hands the
\* output on.
C5_PoolingArgmax ==
  (ListReturned /\ IsPool) =>
    LET K == CanonShape(neighborhoods)[2]
        shape == CanonShape(features)
    IN /\ K >= 1
       /\ Pooled.status = "ok"
       /\ Pooled.y.shape = shape /\ Pooled.argmax.shape = shape
       /\ DOMAIN Pooled.y.val = Index(shape)
       /\ DOMAIN Pooled.argmax.val = Index(shape)
       /\ \A t \in Index(shape) :
            LET out == Pooled.y.val[t]
                am == Pooled.argmax.val[t]
            IN /\ am \in 0..(K - 1)
               /\ out = GatheredAt(t[1], t[2], am, t[3])
               /\ \A k \in 0..(K - 1) : GatheredAt(t[1], t[2], k, t[3]) <= out
               /\ \A k \in 0..(K - 1) : k < am => GatheredAt(t[1], t[2], k, t[3]) < out
               /\ At(last.y, t[1], t[2], t[3]) = out

C5_Witness ==
  /\ ListReturned /\ IsPool
  /\ \E t \in Index(Pooled.argmax.shape) : Pooled.argmax.val[t] = 1
  /\ \E t \in Index(Pooled.argmax.shape) :
       /\ Pooled.argmax.val[t] = 0
       /\ GatheredAt(t[1], t[2], 0, t[3]) = GatheredAt(t[1], t[2], 1, t[3])

\* C6: out-of-range rejection is all-or-nothing.  For each of the three
\* operations, called on the list of the caller's tensors: if some neighbor
\* index lies outside [0, N) the call fails at the kernel, which was handed
\* the indices as the caller gave them, and nothing is returned; otherwise
\* the call returns an output holding a value at every index of its shape.
C6_OutOfRangeAllOrNothing ==
  ListApplied =>
    /\ last.op = "call"
    /\ OutOfRange =>
         /\ last.status = "InvalidArgumentError"
         /\ last.y = NoTensor
         /\ \A t \in Index(CanonShape(neighborhoods)) :
              last.kernel_in[Len(Given)].val[t]
                = At(neighborhoods, t[1], t[2], t[3])
    /\ ~OutOfRange =>
         /\ last.status = "ok"
         /\ last.y.shape = ExpectedOutputShape
         /\ DOMAIN last.y.val = Index(last.y.shape)

C6_Witness ==
  /\ ListCalled /\ IsPool
  /\ OutOfRange
  /\ \E t \in Index(neighborhoods.shape) :
       neighborhoods.val[t] = CanonShape(features)[3]
  /\ \E t \in Index(neighborhoods.shape) :
       neighborhoods.val[t] < CanonShape(features)[3]
  /\ last.status = "InvalidArgumentError"

\* C7: parameters are read-only across calls.  Every step taken on a built
\* layer leaves position_theta, position_bias and feature_bias as they were
\* (value and shape), and leaves the caller's features, positions and
\* neighborhoods as they were.
C7_ParametersReadOnly ==
  [][layer.built =>
       /\ layer'.position_theta = layer.position_theta
       /\ layer'.position_bias = layer.position_bias
       /\ layer'.feature_bias = layer.feature_bias
       /\ features' = features
       /\ positions' = positions
       /\ neighborhoods' = neighborhoods]_vars

C7_Witness ==
  /\ last.op = "call" /\ last.built_before /\ last.status = "ok"
  /\ IsConv /\ layer.use_feature_bias
  /\ layer.data_format = "expanded"

\* C8: parameter shapes match the call contract.  The kernel is handed
\* position_theta of shape [1, Dp, Din, Dout] and position_bias of shape
\* [Din, Dout], with Dout = filters and Din, Dp axis 1 of the features and
\* positions it is handed with them, in both layouts.
C8_ParameterShapes ==
  /\ (IsConv /\ layer.built) =>
       /\ layer.position_theta.shape
            = <<1, CanonShape(positions)[2], CanonShape(features)[2], layer.filters>>
       /\ layer.position_bias.shape = <<CanonShape(features)[2], layer.filters>>
  /\ (IsConv /\ ListApplied) =>
       /\ last.op = "call"
       /\ Len(last.kernel_in) = 5
       /\ last.kernel_in[4] = layer.position_theta
       /\ last.kernel_in[5] = layer.position_bias
       /\ last.kernel_in[4].shape
            = <<1, last.kernel_in[2].shape[2], last.kernel_in[1].shape[2],
                layer.filters>>
       /\ last.kernel_in[5].shape = <<last.kernel_in[1].shape[2], layer.filters>>

C8_Witness ==
  /\ IsConv /\ ListReturned
  /\ layer.data_format = "expanded"
  /\ layer.filters # last.kernel_in[1].shape[2]
  /\ last.kernel_in[1].shape[2] # last.kernel_in[2].shape[2]

\* The output of the kernel the layer invoked in the last call.
KernelOutput ==
  IF layer.kind = "FlexConvolution"
  THEN _flex_convolution(last.kernel_in[1], last.kernel_in[2], last.kernel_in[3],
                         last.kernel_in[4], last.kernel_in[5]).y
  ELSE _flex_convolution_transpose(last.kernel_in[1], last.kernel_in[2],
                                   last.kernel_in[3], last.kernel_in[4],
                                   last.kernel_in[5]).y

\* kernel output plus feature bias (when enabled) at (b, o, n)
Biased(b, o, n) ==
  KernelOutput.val[<<b, o, n>>]
    + (IF layer.use_feature_bias THEN layer.feature_bias.val[<<o, 0>>] ELSE 0)

Activated(x) == IF layer.activation = "relu" /\ x < 0 THEN 0 ELSE x

\* C9: post-processing order of the convolution layers.  After build,
\* feature_bias is a [Dout, 1] parameter exactly when use_feature_bias is
\* enabled and None otherwise; the returned tensor is
\* restore(activation(kernel_output + feature_bias)), the bias added only
\* when enabled, and equals the kernel output when the bias is disabled and
\* no activation is set.
C9_PostProcessing ==
  /\ (IsConv /\ layer.built) =>
       /\ layer.use_feature_bias => layer.feature_bias.shape = <<layer.filters, 1>>
       /\ ~layer.use_feature_bias => layer.feature_bias = NoTensor
  /\ (IsConv /\ ListReturned) =>
       /\ CanonShape(last.y) = KernelOutput.shape
       /\ Len(last.y.shape) = Len(features.shape)
       /\ \A t \in Index(KernelOutput.shape) :
            At(last.y, t[1], t[2], t[3]) = Activated(Biased(t[1], t[2], t[3]))
       /\ (~layer.use_feature_bias /\ layer.activation = "linear") =>
            \A t \in Index(KernelOutput.shape) :
              At(last.y, t[1], t[2], t[3]) = KernelOutput.val[t]

C9_Witness ==
  /\ IsConv /\ ListReturned
  /\ layer.use_feature_bias /\ layer.activation = "relu"
  /\ layer.data_format = "expanded"
  /\ \E t \in Index(KernelOutput.shape) : Biased(t[1], t[2], t[3]) < 0
  /\ \E t \in Index(KernelOutput.shape) : Biased(t[1], t[2], t[3]) > 0

\* The same layer object as an instance of the other convolution class.
Twin(self) ==
  [self EXCEPT !.kind = IF self.kind = "FlexConvolution"
                        THEN "FlexConvolutionTranspose" ELSE "FlexConvolution"]

\* C10: FlexConvolutionTranspose differs from FlexConvolution only in the
\* kernel it invokes.  For the same constructor arguments and inputs the two
\* classes build the same parameters, reject a non-list alike, convert and
\* squeeze the inputs alike and post-process any kernel output alike, so
\* the transpose layer run on the convolution kernel returns what the
\* convolution layer returns.
C10_TransposeDiffersOnlyInKernel ==
  IsConv =>
    /\ ~layer.built => Twin(Layer_build(layer).self) = Layer_build(Twin(layer)).self
    /\ layer.built =>
         /\ FlexConvolution_call(layer, Inputs(layer.kind, "tensor"))
              = FlexConvolutionTranspose_call(layer, Inputs(layer.kind, "tensor"))
         /\ FlexConvolution_pre(layer, Inputs(layer.kind, "list"))
              = FlexConvolutionTranspose_pre(layer, Inputs(layer.kind, "list"))
    /\ ListReturned =>
         /\ FlexConvolution_post(layer, KernelOutput)
              = FlexConvolutionTranspose_post(layer, KernelOutput)
         /\ LET a == FlexConvolutionTranspose_pre(layer, Inputs(layer.kind, "list"))
                swapped == FlexConvolutionTranspose_finish(layer, a,
                             _flex_convolution(a.features, a.positions,
                                               a.neighborhoods, layer.position_theta,
                                               layer.position_bias))
            IN layer.kind = "FlexConvolution" =>
                 swapped.status = last.status /\ swapped.y = last.y

C10_Witness ==
  /\ layer.kind = "FlexConvolution" /\ ListReturned
  /\ layer.use_feature_bias /\ layer.activation = "relu"
  /\ layer.data_format = "expanded"
  /\ _flex_convolution_transpose(last.kernel_in[1], last.kernel_in[2],
                                 last.kernel_in[3], last.kernel_in[4],
                                 last.kernel_in[5]).status = "ok"

====
